---------------------------- MODULE Spec2Model ----------------------------
(***************************************************************************)
(* A model of the ARM simulator: the write-back Cache (cache.py), the      *)
(* MainMemory and MemoryHierarchy (cpu_simulator.py) and the CPU executor  *)
(* (cpu_simulator.py).                                                     *)
(*                                                                         *)
(* Python containers are 0-based; byte arrays are modelled as TLA+         *)
(* sequences (1-based), so byte i of a bytearray is element i + 1.         *)
(* Cache lines are a function over 0 .. num_lines - 1.                     *)
(***************************************************************************)
EXTENDS Integers, Sequences, FiniteSets, TLC

VARIABLES
    cache,      \* the Cache object under test (single-cache specification)
    mem,        \* the bytearray of the memory backing `cache`
    nOps,       \* number of read/write calls made on `cache`
    last,       \* the last call on `cache`: its arguments and what it returned
    shadow,     \* word address -> the word a transparent memory would hold
    lastUse,    \* line index -> the call number of the line's latest access
    nWrites,    \* number of write calls made on `cache`
    hier,       \* the MemoryHierarchy object under test (hierarchy specification)
    hOps,       \* number of calls made on `hier`
    hlast,      \* the last call on `hier`: its arguments and what it returned
    regs,       \* CPU.regs: register number -> Python int
    flags,      \* CPU.flags
    cpu_is_thumb, \* CPU.cpu_is_thumb
    memory,     \* CPU.memory, the flat bytearray (empty when a hierarchy is used)
    mem_hier,   \* CPU.mem_hier, a MemoryHierarchy or NoHier
    nSteps,     \* number of execute calls made on the CPU
    inst,       \* the DecodedInstruction of the last execute call
    outcome,    \* how the last execute call ended
    machine_code, \* the word the last executed instruction was decoded from
    runs        \* run number -> a run of main's driving loop

cacheVars == <<cache, mem, nOps, last, shadow, lastUse, nWrites>>

hierVars == <<hier, hOps, hlast>>

cpuVars == <<regs, flags, cpu_is_thumb, memory, mem_hier, nSteps, inst, outcome,
            machine_code>>

mainVars == <<runs>>

vars == <<cache, mem, nOps, last, shadow, lastUse, nWrites, hier, hOps, hlast,
          regs, flags, cpu_is_thumb, memory, mem_hier, nSteps, inst, outcome,
          machine_code, runs>>

-----------------------------------------------------------------------------
(* Bounds of the model *)

\* calls made on the single cache
MaxOps == 5

\* calls made on the memory hierarchy
MaxHierOps == 3

\* instructions executed by the CPU
MaxSteps == 2

\* bytes of the CPU's flat memory
FlatMemorySize == 16

\* words decoded and executed in a row
MaxDecodes == 1

\* instruction words of a program given to main
MaxProgramWords == 2

-----------------------------------------------------------------------------
(* Python helpers *)

Min(a, b) == IF a < b THEN a ELSE b

Max(a, b) == IF a > b THEN a ELSE b

\* int(math.log2(n)) for n >= 1
RECURSIVE Log2(_)
Log2(n) == IF n <= 1 THEN 0 ELSE 1 + Log2(n \div 2)

\* a & b on non-negative integers
RECURSIVE BitAnd(_, _)
BitAnd(a, b) ==
    IF a = 0 \/ b = 0 THEN 0
    ELSE (a % 2) * (b % 2) + 2 * BitAnd(a \div 2, b \div 2)

\* a | b on non-negative integers
RECURSIVE BitOr(_, _)
BitOr(a, b) ==
    IF a = 0 THEN b
    ELSE IF b = 0 THEN a
    ELSE Max(a % 2, b % 2) + 2 * BitOr(a \div 2, b \div 2)

\* s[lo:hi] for a bytearray s and 0 <= lo, hi (a slice clamps to the length)
PySlice(s, lo, hi) ==
    LET l == Min(lo, Len(s))
        h == Min(hi, Len(s))
    IN  IF l >= h THEN <<>> ELSE SubSeq(s, l + 1, h)

\* s[lo:hi] = data for a bytearray s (the slice is replaced, the length may change)
PySliceAssign(s, lo, hi, data) ==
    LET l == Min(lo, Len(s))
        h == Max(Min(hi, Len(s)), l)
    IN  SubSeq(s, 1, l) \o data \o SubSeq(s, h + 1, Len(s))

\* bytearray(n)
RECURSIVE ZeroBytes(_)
ZeroBytes(n) == IF n <= 0 THEN <<>> ELSE <<0>> \o ZeroBytes(n - 1)

\* Python's int is unbounded; a value v is kept as two limbs, v = hi * 65536 + lo
\* with lo in 0 .. 65535 and hi any integer (negative for a negative v).
PyInt(n) == [hi |-> n \div 65536, lo |-> n % 65536]

\* a + b
PyAdd(a, b) ==
    [hi |-> a.hi + b.hi + ((a.lo + b.lo) \div 65536), lo |-> (a.lo + b.lo) % 65536]

\* a - b
PySub(a, b) ==
    [hi |-> a.hi - b.hi + ((a.lo - b.lo) \div 65536), lo |-> (a.lo - b.lo) % 65536]

\* x & y, x | y, x ^ y on integers of either sign (two's complement)
RECURSIVE AndZ(_, _)
AndZ(x, y) ==
    IF x = 0 \/ y = 0 THEN 0
    ELSE IF x = -1 THEN y
    ELSE IF y = -1 THEN x
    ELSE (x % 2) * (y % 2) + 2 * AndZ(x \div 2, y \div 2)

RECURSIVE OrZ(_, _)
OrZ(x, y) ==
    IF x = 0 THEN y
    ELSE IF y = 0 THEN x
    ELSE IF x = -1 \/ y = -1 THEN -1
    ELSE Max(x % 2, y % 2) + 2 * OrZ(x \div 2, y \div 2)

RECURSIVE XorZ(_, _)
XorZ(x, y) ==
    IF x = 0 THEN y
    ELSE IF y = 0 THEN x
    ELSE IF x = -1 THEN -y - 1
    ELSE IF y = -1 THEN -x - 1
    ELSE ((x + y) % 2) + 2 * XorZ(x \div 2, y \div 2)

\* a & b
PyAnd(a, b) == [hi |-> AndZ(a.hi, b.hi), lo |-> AndZ(a.lo, b.lo)]

\* a | b
PyOr(a, b) == [hi |-> OrZ(a.hi, b.hi), lo |-> OrZ(a.lo, b.lo)]

\* a ^ b
PyXor(a, b) == [hi |-> XorZ(a.hi, b.hi), lo |-> XorZ(a.lo, b.lo)]

\* ~a
PyNot(a) == [hi |-> -a.hi - 1, lo |-> 65535 - a.lo]

\* a << 2
PyShl2(a) == [hi |-> a.hi * 4 + ((a.lo * 4) \div 65536), lo |-> (a.lo * 4) % 65536]

\* a & 0xFFFFFFFF
Mask32(a) == [hi |-> a.hi % 65536, lo |-> a.lo]

\* (a >> 31) & 1
Bit31(a) == (a.hi \div 32768) % 2

\* the Python int as a model integer (for a below 2^31)
ToNat(a) == a.hi * 65536 + a.lo

\* a slice bound for a non-negative Python int over a sequence of n items
SliceBound(a, n) == IF a.hi # 0 THEN n ELSE Min(a.lo, n)

\* int.from_bytes(data, "little") for at most four bytes
ByteAt(data, i) == IF i <= Len(data) THEN data[i] ELSE 0

FromBytes(data) ==
    [hi |-> ByteAt(data, 3) + 256 * ByteAt(data, 4),
     lo |-> ByteAt(data, 1) + 256 * ByteAt(data, 2)]

\* v.to_bytes(4, "little") for v in 0 .. 2^32 - 1
ToBytes(v) == <<v.lo % 256, v.lo \div 256, v.hi % 256, v.hi \div 256>>

-----------------------------------------------------------------------------
(* cache.py *)

\* CacheLine.__init__
CacheLine(block_size) ==
    [valid |-> FALSE, dirty |-> FALSE, tag |-> -1,
     data |-> ZeroBytes(block_size), lru_counter |-> 0]

\* Cache.__init__; `size` is size_kb * 1024
Cache_init(size, block_size, mapping_type) ==
    LET num_lines == size \div block_size
        offset_bits == Log2(block_size)
        index_bits == IF mapping_type = "direct"
                      THEN (IF num_lines > 0 THEN Log2(num_lines) ELSE 0)
                      ELSE 0
    IN  [size |-> size, block_size |-> block_size, mapping_type |-> mapping_type,
         num_lines |-> num_lines,
         lines |-> [i \in 0 .. num_lines - 1 |-> CacheLine(block_size)],
         offset_bits |-> offset_bits, index_bits |-> index_bits,
         tag_bits |-> 32 - index_bits - offset_bits,
         hits |-> 0, misses |-> 0, write_backs |-> 0]

\* Cache._get_address_parts
get_address_parts(c, address) ==
    [offset |-> address % (2 ^ c.offset_bits),
     index  |-> IF c.mapping_type = "direct"
                THEN (address \div (2 ^ c.offset_bits)) % (2 ^ c.index_bits)
                ELSE 0,
     tag    |-> IF c.mapping_type = "direct"
                THEN address \div (2 ^ (c.offset_bits + c.index_bits))
                ELSE address \div (2 ^ c.offset_bits)]

\* the first index of a left-to-right scan of the lines that is in S, or -1
FirstLine(S) ==
    IF S = {} THEN -1 ELSE CHOOSE i \in S : \A j \in S : i <= j

\* a lookup that, under fully-assoc, tests the first line only
find_line_FirstOnly(c, tag, index) ==
    IF c.mapping_type = "direct"
    THEN [line_index |-> index, found |-> index < c.num_lines,
          err |-> IF index < c.num_lines THEN "none" ELSE "IndexError"]
    ELSE IF c.num_lines > 0 /\ c.lines[0].valid /\ c.lines[0].tag = tag
    THEN [line_index |-> 0, found |-> TRUE, err |-> "none"]
    ELSE [line_index |-> -1, found |-> FALSE, err |-> "none"]

\* Cache._find_line: found is FALSE for Python's (-1, None); err is the
\* IndexError of self.lines[index] on a cache with no such line
find_line(c, tag, index) ==
    IF c.mapping_type = "direct"
    THEN [line_index |-> index, found |-> index < c.num_lines,
          err |-> IF index < c.num_lines THEN "none" ELSE "IndexError"]
    ELSE LET i == FirstLine({k \in 0 .. c.num_lines - 1 :
                                  c.lines[k].valid /\ c.lines[k].tag = tag})
         IN  [line_index |-> i, found |-> i >= 0, err |-> "none"]

\* a victim selection that takes the lowest recency counter (the most recently
\* used line) instead of the highest
find_lru_line_MinCounter(c) ==
    LET inv == FirstLine({k \in 0 .. c.num_lines - 1 : ~c.lines[k].valid})
        mn  == FirstLine({k \in 0 .. c.num_lines - 1 :
                   \A j \in 0 .. c.num_lines - 1 :
                       c.lines[j].lru_counter >= c.lines[k].lru_counter})
    IN  IF inv >= 0 THEN inv
        ELSE IF mn >= 0 THEN mn ELSE 0

\* a victim selection that takes the last invalid line instead of the first
find_lru_line_LastInvalid(c) ==
    LET inv == {k \in 0 .. c.num_lines - 1 : ~c.lines[k].valid}
        mx  == FirstLine({k \in 0 .. c.num_lines - 1 :
                   \A j \in 0 .. c.num_lines - 1 :
                       c.lines[j].lru_counter <= c.lines[k].lru_counter})
    IN  IF inv # {} THEN CHOOSE i \in inv : \A j \in inv : j <= i
        ELSE IF mx >= 0 THEN mx ELSE 0

\* Cache._find_lru_line
find_lru_line(c) ==
    LET inv == FirstLine({k \in 0 .. c.num_lines - 1 : ~c.lines[k].valid})
        mx  == FirstLine({k \in 0 .. c.num_lines - 1 :
                   \A j \in 0 .. c.num_lines - 1 :
                       c.lines[j].lru_counter <= c.lines[k].lru_counter})
    IN  IF inv >= 0 THEN inv
        ELSE IF mx >= 0 THEN mx ELSE 0

\* a recency update that does not skip the invalid lines
update_lru_AllLines(c, accessed_index) ==
    [c EXCEPT !.lines = [i \in 0 .. c.num_lines - 1 |->
        [c.lines[i] EXCEPT !.lru_counter =
            IF i = accessed_index THEN 0 ELSE @ + 1]]]

\* Cache._update_lru
update_lru(c, accessed_index) ==
    [c EXCEPT !.lines = [i \in 0 .. c.num_lines - 1 |->
        IF c.lines[i].valid
        THEN [c.lines[i] EXCEPT !.lru_counter =
                 IF i = accessed_index THEN 0 ELSE @ + 1]
        ELSE c.lines[i]]]

\* the address a victim line is written back to (Cache._handle_miss, old_address)
old_address(c, victim_line_index) ==
    BitOr(c.lines[victim_line_index].tag * (2 ^ (c.offset_bits + c.index_bits)),
          victim_line_index * (2 ^ c.offset_bits))

\* address & ~(self.block_size - 1)
block_start_address(c, address) ==
    address - BitAnd(address, c.block_size - 1)

\* MainMemory.read / MockMemory.read
MainMemory_read(m, address, size) == PySlice(m, address, address + size)

\* MainMemory.write / MockMemory.write
MainMemory_write(m, address, data) ==
    PySliceAssign(m, address, address + Len(data), data)

\* A lower level is [kind |-> "mem", memory |-> bytes] (a MainMemory) or
\* [kind |-> "cache", c |-> Cache, memory |-> bytes] (a Cache over a MainMemory).
LowerMem(m) == [kind |-> "mem", memory |-> m]

LowerCache(c, m) == [kind |-> "cache", c |-> c, memory |-> m]

RECURSIVE Cache_write(_, _, _, _)

\* self.lower_level.read(block_start_address, self.block_size): a MainMemory
\* takes (address, size); Cache.read takes one argument, so the call raises
lower_read(lower, address, size) ==
    IF lower.kind = "mem"
    THEN [data |-> MainMemory_read(lower.memory, address, size), err |-> "none"]
    ELSE [data |-> <<>>, err |-> "TypeError"]

\* the lower level and the outcome after a Cache.write on a lower-level Cache
lower_written(r) == [lower |-> LowerCache(r.c, r.lower.memory), err |-> r.err]

\* self.lower_level.write(old_address, victim_line.data)
lower_write(lower, address, data) ==
    IF lower.kind = "mem"
    THEN [lower |-> LowerMem(MainMemory_write(lower.memory, address, data)),
          err |-> "none"]
    ELSE lower_written(Cache_write(lower.c, LowerMem(lower.memory), address, data))

\* the victim of a miss (Cache._handle_miss, victim_line_index)
victim_line_index(c, index) ==
    IF c.mapping_type = "fully-assoc" THEN find_lru_line(c) ELSE index

\* the cache and the lower level after the write-back w of a counted victim
written_back(c, w) ==
    [c |-> [c EXCEPT !.write_backs = @ + 1], lower |-> w.lower, err |-> w.err]

\* the write-back of a valid and dirty victim (Cache._handle_miss)
write_back(c, lower, victim) ==
    IF c.lines[victim].valid /\ c.lines[victim].dirty
    THEN written_back(c, lower_write(lower, old_address(c, victim),
                                     c.lines[victim].data))
    ELSE [c |-> c, lower |-> lower, err |-> "none"]

\* a refill that forgets to mark the line valid
fill_line_NotValid(line, data, tag) ==
    [line EXCEPT !.data = data, !.tag = tag, !.dirty = FALSE]

\* the refill of the victim line (Cache._handle_miss, after the fetch)
fill_line(line, data, tag) ==
    [line EXCEPT !.data = data, !.tag = tag, !.valid = TRUE, !.dirty = FALSE]

\* the victim refilled with the fetched block rd and marked most recently used;
\* s is the cache and lower level after the write-back. An exception (of the
\* write-back or of the fetch) leaves what was done before it.
refill(s, rd, tag, victim) ==
    IF s.err # "none"
    THEN [c |-> s.c, lower |-> s.lower, line_index |-> victim, err |-> s.err]
    ELSE IF rd.err # "none"
    THEN [c |-> s.c, lower |-> s.lower, line_index |-> victim, err |-> rd.err]
    ELSE [c |-> IF s.c.mapping_type = "fully-assoc"
                THEN update_lru([s.c EXCEPT !.lines[victim] =
                                    fill_line(@, rd.data, tag)], victim)
                ELSE [s.c EXCEPT !.lines[victim] = fill_line(@, rd.data, tag)],
          lower |-> s.lower, line_index |-> victim, err |-> "none"]

\* the fetch of the missed block from the lower level, then the refill
fetch(s, address, tag, victim) ==
    refill(s,
           IF s.err = "none"
           THEN lower_read(s.lower, block_start_address(s.c, address), s.c.block_size)
           ELSE [data |-> <<>>, err |-> s.err],
           tag, victim)

\* Cache._handle_miss for the chosen victim; self.lines[victim_line_index]
\* raises IndexError on a cache without that line
miss_victim(c, lower, address, tag, victim) ==
    IF victim >= c.num_lines
    THEN [c |-> c, lower |-> lower, line_index |-> victim, err |-> "IndexError"]
    ELSE fetch(write_back(c, lower, victim), address, tag, victim)

\* Cache._handle_miss
handle_miss(c, lower, address, tag, index) ==
    miss_victim(c, lower, address, tag, victim_line_index(c, index))

\* the outcome m of a call that missed
missed(m) ==
    [c |-> m.c, lower |-> m.lower, line_index |-> m.line_index,
     hit |-> FALSE, err |-> m.err]

\* the hit test and the two branches of Cache.read and Cache.write, for the
\* address parts p and the line f that _find_line returned
resolve_line(c, lower, address, p, f) ==
    IF f.err # "none"
    THEN [c |-> c, lower |-> lower, line_index |-> f.line_index,
          hit |-> FALSE, err |-> f.err]
    ELSE IF f.found /\ c.lines[f.line_index].valid
                    /\ c.lines[f.line_index].tag = p.tag
    THEN [c |-> IF c.mapping_type = "fully-assoc"
                THEN update_lru([c EXCEPT !.hits = @ + 1], f.line_index)
                ELSE [c EXCEPT !.hits = @ + 1],
          lower |-> lower, line_index |-> f.line_index,
          hit |-> TRUE, err |-> "none"]
    ELSE missed(handle_miss([c EXCEPT !.misses = @ + 1], lower, address,
                            p.tag, p.index))

\* _find_line for the address parts p, then the hit test
resolve_parts(c, lower, address, p) ==
    resolve_line(c, lower, address, p, find_line(c, p.tag, p.index))

\* the common head of Cache.read and Cache.write: the line the access resolves to
resolve(c, lower, address) ==
    resolve_parts(c, lower, address, get_address_parts(c, address))

\* what Cache.read returns from the resolved line (r is the resolution)
read_line(r, offset) ==
    [c |-> r.c, lower |-> r.lower, line_index |-> r.line_index, hit |-> r.hit,
     err |-> r.err,
     ret |-> IF r.err = "none"
             THEN PySlice(r.c.lines[r.line_index].data, offset, offset + 4)
             ELSE <<>>]

\* Cache.read
Cache_read(c, lower, address) ==
    read_line(resolve(c, lower, address), get_address_parts(c, address).offset)

\* a store that forgets to mark the line dirty
store_word_NoDirty(line, offset, data_word) ==
    [line |-> [line EXCEPT !.data =
                  [k \in 1 .. Len(line.data) |->
                      IF k - 1 >= offset /\ k - 1 < offset + Len(data_word)
                      THEN data_word[k - offset] ELSE line.data[k]]],
     err |-> IF offset + Len(data_word) <= Len(line.data)
             THEN "none" ELSE "IndexError"]

\* the store of Cache.write into the resolved line: the loop stores byte by byte
\* and raises IndexError at the first byte past the line's data, before dirty is set
store_word(line, offset, data_word) ==
    [line |-> [line EXCEPT
                  !.data = [k \in 1 .. Len(line.data) |->
                      IF k - 1 >= offset /\ k - 1 < offset + Len(data_word)
                      THEN data_word[k - offset] ELSE line.data[k]],
                  !.dirty = IF offset + Len(data_word) <= Len(line.data)
                            THEN TRUE ELSE @],
     err |-> IF offset + Len(data_word) <= Len(line.data)
             THEN "none" ELSE "IndexError"]

\* the outcome of Cache.write for the resolution r and the store st
stored(r, st) ==
    [c |-> [r.c EXCEPT !.lines[r.line_index] = st.line],
     lower |-> r.lower, line_index |-> r.line_index,
     hit |-> r.hit, err |-> st.err]

\* the store into the resolved line (r is the resolution)
write_line(r, offset, data_word) ==
    IF r.err # "none"
    THEN [c |-> r.c, lower |-> r.lower, line_index |-> r.line_index,
          hit |-> r.hit, err |-> r.err]
    ELSE stored(r, store_word(r.c.lines[r.line_index], offset, data_word))

\* a write-through store: the written word is also passed to the lower level
Cache_write_Through(c, lower, address, data_word) ==
    [write_line(resolve(c, lower, address), get_address_parts(c, address).offset,
                data_word)
        EXCEPT !.lower = IF lower.kind = "mem"
                         THEN LowerMem(MainMemory_write(@.memory, address, data_word))
                         ELSE @]

\* Cache.write
Cache_write(c, lower, address, data_word) ==
    write_line(resolve(c, lower, address), get_address_parts(c, address).offset,
               data_word)

-----------------------------------------------------------------------------
(* cpu_simulator.py: MemoryHierarchy *)

\* MemoryHierarchy.__init__; each cfg is [size, block_size, mapping]
MemoryHierarchy_init(l1i_cfg, l1d_cfg, l2_cfg, main_memory_size) ==
    [main_mem |-> ZeroBytes(main_memory_size),
     l2  |-> Cache_init(l2_cfg.size, l2_cfg.block_size, l2_cfg.mapping),
     l1i |-> Cache_init(l1i_cfg.size, l1i_cfg.block_size, l1i_cfg.mapping),
     l1d |-> Cache_init(l1d_cfg.size, l1d_cfg.block_size, l1d_cfg.mapping)]

\* load_binary: the program bytes copied into main memory from address 0
load_binary(h, data) ==
    [h EXCEPT !.main_mem = PySliceAssign(@, 0, Len(data), data)]

\* the lower level of both L1 caches: the shared L2 over main memory
L2Level(h) == LowerCache(h.l2, h.main_mem)

\* the hierarchy after the outcome r of a call on L1I
l1i_called(h, r) ==
    [h EXCEPT !.l1i = r.c, !.l2 = r.lower.c, !.main_mem = r.lower.memory]

\* the hierarchy after the outcome r of a call on L1D
l1d_called(h, r) ==
    [h EXCEPT !.l1d = r.c, !.l2 = r.lower.c, !.main_mem = r.lower.memory]

\* int.from_bytes(data, "little") of what the L1 read returned
word_read(h, r) ==
    [h |-> h, err |-> r.err,
     ret |-> IF r.err = "none" THEN FromBytes(r.ret) ELSE PyInt(0)]

\* MemoryHierarchy.read_instruction
read_instruction(h, address) ==
    word_read(l1i_called(h, Cache_read(h.l1i, L2Level(h), address)),
              Cache_read(h.l1i, L2Level(h), address))

\* MemoryHierarchy.read_data
read_data(h, address) ==
    word_read(l1d_called(h, Cache_read(h.l1d, L2Level(h), address)),
              Cache_read(h.l1d, L2Level(h), address))

\* the outcome of write_data from the outcome r of the L1D write
word_written(h, r) == [h |-> h, err |-> r.err, ret |-> PyInt(0)]

\* MemoryHierarchy.write_data
write_data(h, address, value) ==
    word_written(l1d_called(h, Cache_write(h.l1d, L2Level(h), address,
                                           ToBytes(Mask32(value)))),
                 Cache_write(h.l1d, L2Level(h), address, ToBytes(Mask32(value))))

\* MemoryHierarchy.stats
stats(h) ==
    [l1i_misses |-> h.l1i.misses,
     l1d_misses |-> h.l1d.misses,
     l2_misses |-> h.l2.misses,
     write_backs |-> h.l1i.write_backs + h.l1d.write_backs + h.l2.write_backs]

\* CPU.mem_hier is None
NoHier == [none |-> TRUE]

-----------------------------------------------------------------------------
(* decoder.py: DecodedInstruction *)

\* a register field that is None
None == -1

\* an imm field that is None
NoImm == [hi |-> 0, lo |-> -1]

\* DecodedInstruction.__init__ with the fields the decoder assigns
DecodedInstruction(op_type, op_code, rn, rd, rm, imm) ==
    [op_type |-> op_type, op_code |-> op_code, rn |-> rn, rd |-> rd, rm |-> rm,
     imm |-> imm]

\* no machine code: the instruction was not decoded from a word
NoWord == [hi |-> 0, lo |-> -1]

\* a DecodedInstruction as its constructor leaves it
NoInst == DecodedInstruction("UNKNOWN", "UNK", None, None, None, NoImm)

\* a class field that leaves out bit 27
bits_27_25_Low2(w) == (w.hi \div 512) % 4

\* decode_arm: the fields of a 32-bit word w (a Python int in limbs)
bits_27_25(w) == (w.hi \div 512) % 8

bits_24_21(w) == (w.hi \div 32) % 16

\* decode_arm, data processing (immediate): the op_map of the opcode field
dp_imm_op_code(opcode) ==
    CASE opcode = 4  -> "ADD"
      [] opcode = 2  -> "SUB"
      [] opcode = 13 -> "MOV"
      [] opcode = 0  -> "AND"
      [] opcode = 12 -> "ORR"
      [] opcode = 11 -> "CMN"
      [] opcode = 9  -> "TST"
      [] opcode = 10 -> "CMP"
      [] OTHER -> "UNK"

\* decode_arm, branch: imm = machine_code & 0x00FFFFFF, sign-extended to 32 bits
\* with imm |= 0xFF000000 when bit 23 is set
branch_imm(w) ==
    IF (w.hi \div 128) % 2 = 1
    THEN [hi |-> (w.hi % 256) + 65280, lo |-> w.lo]
    ELSE [hi |-> w.hi % 256, lo |-> w.lo]

\* decode_arm
decode_arm(w) ==
    IF bits_27_25(w) = 1
    THEN DecodedInstruction("DP_IMM", dp_imm_op_code(bits_24_21(w)),
                            w.hi % 16, w.lo \div 4096, None, PyInt(w.lo % 4096))
    ELSE IF bits_27_25(w) = 0
    THEN DecodedInstruction("DP_REG", IF bits_24_21(w) = 4 THEN "ADD" ELSE "UNK",
                            w.hi % 16, w.lo \div 4096, w.lo % 16, NoImm)
    ELSE IF bits_27_25(w) \in {2, 3}
    THEN DecodedInstruction("LOAD_STORE",
                            IF (w.hi \div 16) % 2 = 1 THEN "LDR" ELSE "STR",
                            w.hi % 16, w.lo \div 4096, None, PyInt(w.lo % 4096))
    ELSE IF bits_27_25(w) = 5
    THEN DecodedInstruction("BRANCH",
                            IF (w.hi \div 256) % 2 = 1 THEN "BL" ELSE "B",
                            None, None, None, branch_imm(w))
    ELSE NoInst

\* decode_thumb, format 4: the op_map of the opcode field
thumb_imm_op_code(opcode) ==
    CASE opcode = 0 -> "MOV"
      [] opcode = 1 -> "CMP"
      [] opcode = 2 -> "ADD"
      [] opcode = 3 -> "SUB"

\* decode_thumb; the word is not truncated to 16 bits, so the tests are on
\* machine_code >> 11 and machine_code >> 13 as Python computes them
decode_thumb(w) ==
    IF w.hi = 0 /\ w.lo \div 2048 = 3
    THEN DecodedInstruction("DP_REG",
                            IF (w.lo \div 512) % 2 = 1 THEN "SUB" ELSE "ADD",
                            (w.lo \div 8) % 8, w.lo % 8, None, NoImm)
    ELSE IF w.hi = 0 /\ w.lo \div 8192 = 1
    THEN DecodedInstruction("DP_IMM", thumb_imm_op_code((w.lo \div 2048) % 4),
                            None, (w.lo \div 256) % 8, None, PyInt(w.lo % 256))
    ELSE NoInst

-----------------------------------------------------------------------------
(* cpu_simulator.py: CPU *)

\* The executor's operators work on a record s of the CPU object's fields
\* [regs, flags, cpu_is_thumb, memory, mem_hier] with err, the exception raised.

\* CPU.__init__
CPU_init(memory_size, hierarchy) ==
    [regs |-> [i \in 0 .. 15 |-> PyInt(0)],
     flags |-> [N |-> 0, Z |-> 0, C |-> 0, V |-> 0],
     cpu_is_thumb |-> FALSE,
     mem_hier |-> hierarchy,
     memory |-> IF hierarchy = NoHier THEN ZeroBytes(memory_size) ELSE <<>>,
     err |-> "none"]

\* the pc setter
set_pc(s, value) == [s EXCEPT !.regs[15] = Mask32(value)]

\* (result >> 31) & 1 taken as the sign of the result
NFlag_Sign(result) == IF result.hi < 0 THEN 1 ELSE 0

\* CPU._set_nz_flags: flags['N']
NFlag(result) == Bit31(result)

\* CPU._set_nz_flags: flags['Z']
ZFlag(result) == IF result = PyInt(0) THEN 1 ELSE 0

\* CPU._set_nz_flags
set_nz_flags(s, result) ==
    [s EXCEPT !.flags.N = NFlag(result), !.flags.Z = ZFlag(result)]

\* inst.imm if inst.imm is not None else self.regs[inst.rm]
operand2(s, i) == IF i.imm # NoImm THEN i.imm ELSE s.regs[i.rm]

\* self.regs[inst.rd] = result & 0xFFFFFFFF; self._set_nz_flags(result)
store_masked(s, rd, result) ==
    set_nz_flags([s EXCEPT !.regs[rd] = Mask32(result)], result)

\* self.regs[inst.rd] = result; self._set_nz_flags(result)
store_result(s, rd, result) ==
    set_nz_flags([s EXCEPT !.regs[rd] = result], result)

exec_add(s, i) == store_masked(s, i.rd, PyAdd(s.regs[i.rn], operand2(s, i)))

exec_sub(s, i) == store_masked(s, i.rd, PySub(s.regs[i.rn], operand2(s, i)))

exec_mov(s, i) == store_masked(s, i.rd, operand2(s, i))

exec_and(s, i) == store_result(s, i.rd, PyAnd(s.regs[i.rn], operand2(s, i)))

exec_eor(s, i) == store_result(s, i.rd, PyXor(s.regs[i.rn], s.regs[i.rm]))

exec_orr(s, i) == store_result(s, i.rd, PyOr(s.regs[i.rn], operand2(s, i)))

exec_rsb(s, i) == store_masked(s, i.rd, PySub(operand2(s, i), s.regs[i.rn]))

exec_adc(s, i) ==
    store_masked(s, i.rd,
                 PyAdd(PyAdd(s.regs[i.rn], operand2(s, i)), PyInt(s.flags.C)))

exec_sbc(s, i) ==
    store_masked(s, i.rd,
                 PySub(PyAdd(PySub(s.regs[i.rn], operand2(s, i)), PyInt(s.flags.C)),
                       PyInt(1)))

exec_rsc(s, i) ==
    store_masked(s, i.rd,
                 PySub(PyAdd(PySub(operand2(s, i), s.regs[i.rn]), PyInt(s.flags.C)),
                       PyInt(1)))

exec_tst(s, i) == set_nz_flags(s, PyAnd(s.regs[i.rn], operand2(s, i)))

exec_teq(s, i) == set_nz_flags(s, PyXor(s.regs[i.rn], s.regs[i.rm]))

\* a CMP that stores the difference in rd as SUB does
exec_cmp_Writes(s, i) == store_masked(s, i.rd, PySub(s.regs[i.rn], operand2(s, i)))

exec_cmp(s, i) == set_nz_flags(s, PySub(s.regs[i.rn], operand2(s, i)))

exec_cmn(s, i) == set_nz_flags(s, PyAdd(s.regs[i.rn], operand2(s, i)))

exec_bic(s, i) ==
    store_masked(s, i.rd, PyAnd(s.regs[i.rn], PyNot(operand2(s, i))))

exec_mvn(s, i) == store_masked(s, i.rd, PyNot(operand2(s, i)))

\* addr = self.regs[inst.rn] + inst.imm
effective_address(s, i) == PyAdd(s.regs[i.rn], i.imm)

\* self.regs[inst.rd] = self.mem_hier.read_data(addr), r the outcome of read_data
loaded(s, rd, r) ==
    IF r.err # "none"
    THEN [s EXCEPT !.mem_hier = r.h, !.err = r.err]
    ELSE [s EXCEPT !.mem_hier = r.h, !.regs[rd] = r.ret]

\* exec_ldr (line 274 of the source is indented by three spaces instead of
\* four; it is read as the method of CPU that execute looks up)
exec_ldr(s, i) ==
    IF s.mem_hier # NoHier
    THEN loaded(s, i.rd, read_data(s.mem_hier, ToNat(effective_address(s, i))))
    ELSE [s EXCEPT !.regs[i.rd] =
             FromBytes(PySlice(s.memory,
                               SliceBound(effective_address(s, i), Len(s.memory)),
                               SliceBound(PyAdd(effective_address(s, i), PyInt(4)),
                                          Len(s.memory))))]

\* the CPU after self.mem_hier.write_data(addr, val) with outcome r
stored_through(s, r) == [s EXCEPT !.mem_hier = r.h, !.err = r.err]

exec_str(s, i) ==
    IF s.mem_hier # NoHier
    THEN stored_through(s, write_data(s.mem_hier, ToNat(effective_address(s, i)),
                                      Mask32(s.regs[i.rd])))
    ELSE [s EXCEPT !.memory =
             PySliceAssign(@,
                           SliceBound(effective_address(s, i), Len(s.memory)),
                           SliceBound(PyAdd(effective_address(s, i), PyInt(4)),
                                      Len(s.memory)),
                           ToBytes(Mask32(s.regs[i.rd])))]

\* imm24 = inst.imm & 0x00FFFFFF; if imm24 & (1 << 23): imm24 -= (1 << 24)
sign_extend24(imm24) ==
    IF (imm24.hi \div 128) % 2 = 1 THEN PySub(imm24, PyInt(16777216)) ELSE imm24

\* offset = imm24 << 2
branch_offset(imm) == PyShl2(sign_extend24(PyAnd(imm, PyInt(16777215))))

\* next_pc + offset, with next_pc = self.pc + 8
branch_target(pc, imm) == PyAdd(PyAdd(pc, PyInt(8)), branch_offset(imm))

exec_b(s, i) == set_pc(s, branch_target(s.regs[15], i.imm))

exec_bl(s, i) ==
    set_pc([s EXCEPT !.regs[14] = PyAdd(s.regs[15], PyInt(4))],
           branch_target(s.regs[15], i.imm))

\* the opcodes for which getattr(self, "exec_" + op_code.lower()) finds a method
DataProcOps ==
    {"ADD", "SUB", "MOV", "AND", "EOR", "ORR", "RSB", "ADC", "SBC", "RSC",
     "TST", "TEQ", "CMP", "CMN", "BIC", "MVN"}

Handlers == DataProcOps \cup {"LDR", "STR", "B", "BL"}

\* the fields a handler reads: a None among them raises TypeError before the
\* handler changes anything
MissingOperand(i) ==
    \/ /\ i.op_code \in DataProcOps \ {"MOV", "MVN"}
       /\ i.rn = None
    \/ /\ i.op_code \in DataProcOps \ {"TST", "TEQ", "CMP", "CMN"}
       /\ i.rd = None
    \/ /\ i.op_code \in DataProcOps \ {"EOR", "TEQ"}
       /\ i.imm = NoImm
       /\ i.rm = None
    \/ /\ i.op_code \in {"EOR", "TEQ"}
       /\ i.rm = None
    \/ /\ i.op_code \in {"LDR", "STR"}
       /\ (i.rn = None \/ i.rd = None \/ i.imm = NoImm)
    \/ /\ i.op_type = "LOAD_STORE"
       /\ (i.rn = None \/ i.imm = NoImm)
    \/ /\ i.op_code \in {"B", "BL"}
       /\ i.imm = NoImm

\* handler(inst)
handler(s, i) ==
    CASE i.op_code = "ADD" -> exec_add(s, i)
      [] i.op_code = "SUB" -> exec_sub(s, i)
      [] i.op_code = "MOV" -> exec_mov(s, i)
      [] i.op_code = "AND" -> exec_and(s, i)
      [] i.op_code = "EOR" -> exec_eor(s, i)
      [] i.op_code = "ORR" -> exec_orr(s, i)
      [] i.op_code = "RSB" -> exec_rsb(s, i)
      [] i.op_code = "ADC" -> exec_adc(s, i)
      [] i.op_code = "SBC" -> exec_sbc(s, i)
      [] i.op_code = "RSC" -> exec_rsc(s, i)
      [] i.op_code = "TST" -> exec_tst(s, i)
      [] i.op_code = "TEQ" -> exec_teq(s, i)
      [] i.op_code = "CMP" -> exec_cmp(s, i)
      [] i.op_code = "CMN" -> exec_cmn(s, i)
      [] i.op_code = "BIC" -> exec_bic(s, i)
      [] i.op_code = "MVN" -> exec_mvn(s, i)
      [] i.op_code = "LDR" -> exec_ldr(s, i)
      [] i.op_code = "STR" -> exec_str(s, i)
      [] i.op_code = "B"   -> exec_b(s, i)
      [] i.op_code = "BL"  -> exec_bl(s, i)

\* a PC update that adds the step whether or not the handler changed the PC
advance_pc_Always(t, before_pc) ==
    IF t.err # "none" THEN t
    ELSE set_pc(t, PyAdd(t.regs[15], PyInt(IF t.cpu_is_thumb THEN 2 ELSE 4)))

\* the PC update of CPU.execute: t is the CPU after the handler, before_pc is
\* before_regs[15]; an exception of the handler skips the update
advance_pc(t, before_pc) ==
    IF t.err # "none" THEN t
    ELSE IF t.regs[15] = before_pc
    THEN set_pc(t, PyAdd(t.regs[15], PyInt(IF t.cpu_is_thumb THEN 2 ELSE 4)))
    ELSE t

\* an execute that steps over an instruction without a handler
execute_StepOver(s, i) ==
    IF i.op_code \notin Handlers THEN advance_pc(s, s.regs[15])
    ELSE IF MissingOperand(i) THEN [s EXCEPT !.err = "TypeError"]
    ELSE advance_pc(handler(s, i), s.regs[15])

\* CPU.execute
execute(s, i) ==
    IF i.op_code \notin Handlers THEN s
    ELSE IF MissingOperand(i) THEN [s EXCEPT !.err = "TypeError"]
    ELSE advance_pc(handler(s, i), s.regs[15])

-----------------------------------------------------------------------------
(* Objects a scenario does not construct *)

NoCall == [op |-> "none", addr |-> 0, word |-> <<>>, ret |-> <<>>,
           hit |-> FALSE, line |-> -1, err |-> "none"]

NoHierCall == [op |-> "none", addr |-> 0, value |-> PyInt(0), ret |-> PyInt(0),
               err |-> "none"]

\* no single cache under test
CacheIdle ==
    /\ cache = [none |-> TRUE]
    /\ mem = <<>>
    /\ nOps = 0
    /\ last = NoCall
    /\ shadow = <<>>
    /\ lastUse = <<>>
    /\ nWrites = 0

\* no stand-alone hierarchy under test
HierIdle ==
    /\ hier = NoHier
    /\ hOps = 0
    /\ hlast = NoHierCall

\* no CPU: the fields of a CPU that executes nothing
CpuIdle ==
    /\ regs = CPU_init(0, NoHier).regs
    /\ flags = CPU_init(0, NoHier).flags
    /\ cpu_is_thumb = FALSE
    /\ memory = <<>>
    /\ mem_hier = NoHier
    /\ nSteps = 0
    /\ inst = NoInst
    /\ outcome = "none"
    /\ machine_code = NoWord

\* main is not run
MainIdle == runs = <<>>

-----------------------------------------------------------------------------
(* The single cache over a main memory (test_cache.py, setUp) *)

\* Cache geometries under test: size in bytes, block size, mapping, memory size
CacheConfigs ==
    { [size |-> 16, block_size |-> 8, mapping_type |-> "direct", mem_size |-> 24],
      [size |-> 12, block_size |-> 4, mapping_type |-> "fully-assoc", mem_size |-> 16] }

\* the memory image the cache starts over: byte a holds InitByte(a)
InitByte(a) == (a * 7 + 1) % 256

InitMemory(n) == [k \in 1 .. n |-> InitByte(k - 1)]

\* the word the k-th call writes (4 bytes): every write stores a fresh word
WordOfCall(k) == <<16 * k + 1, 16 * k + 2, 16 * k + 3, 16 * k + 4>>

\* word-aligned, in-range addresses
WordAddrs == {a \in 0 .. Len(mem) - 4 : a % 4 = 0}

CacheInit ==
    /\ \E cfg \in CacheConfigs :
        /\ cache = Cache_init(cfg.size, cfg.block_size, cfg.mapping_type)
        /\ mem = InitMemory(cfg.mem_size)
        /\ nOps = 0
        /\ last = NoCall
        /\ shadow = [a \in {x \in 0 .. cfg.mem_size - 4 : x % 4 = 0} |->
                        SubSeq(InitMemory(cfg.mem_size), a + 1, a + 4)]
        /\ lastUse = [i \in 0 .. (cfg.size \div cfg.block_size) - 1 |-> 0]
        /\ nWrites = 0
    /\ HierIdle
    /\ CpuIdle
    /\ MainIdle

\* the call number of each line's latest access, after the outcome r of a call
Used(r) ==
    IF r.err = "none" /\ cache.mapping_type = "fully-assoc"
    THEN [lastUse EXCEPT ![r.line_index] = nOps + 1]
    ELSE lastUse

\* the state after a call with outcome r
Called(op, A, w, r) ==
    /\ cache' = r.c
    /\ mem' = r.lower.memory
    /\ last' = [op |-> op, addr |-> A, word |-> w,
                ret |-> IF op = "read" THEN r.ret ELSE <<>>,
                hit |-> r.hit, line |-> r.line_index, err |-> r.err]
    /\ lastUse' = Used(r)
    /\ nOps' = nOps + 1
    /\ UNCHANGED <<hierVars, cpuVars, mainVars>>

\* cache.read(A)
CRead(A) ==
    /\ nOps < MaxOps
    /\ Called("read", A, <<>>, Cache_read(cache, LowerMem(mem), A))
    /\ UNCHANGED <<shadow, nWrites>>

\* cache.write(A, w)
CWrite(A, w) ==
    /\ nOps < MaxOps
    /\ Called("write", A, w, Cache_write(cache, LowerMem(mem), A, w))
    /\ shadow' = [shadow EXCEPT ![A] = w]
    /\ nWrites' = nWrites + 1

CacheRead == \E A \in WordAddrs : CRead(A)

CacheWrite == \E A \in WordAddrs : CWrite(A, WordOfCall(nOps + 1))

CacheNext == CacheRead \/ CacheWrite

SpecCache == CacheInit /\ [][CacheNext]_vars

-----------------------------------------------------------------------------
(* Claims about the single cache *)

Lines == 0 .. cache.num_lines - 1

ValidLines == {i \in Lines : cache.lines[i].valid}

IsDirect == cache.mapping_type = "direct"

IsFullyAssoc == cache.mapping_type = "fully-assoc"

\* the block-aligned address of the block holding address a
BlockOf(a) == a - (a % cache.block_size)

\* C1: cache transparency. In every reachable state of a cache of either
\* mapping policy, read(A) returns, for every word-aligned in-range A, the word
\* most recently written to A through the cache, or main memory's original word
\* at A if A was never written.
C1_Transparency ==
    \A A \in WordAddrs : Cache_read(cache, LowerMem(mem), A).ret = shadow[A]

\* C2: in a fresh direct-mapped cache, A and A + capacity map to the same line,
\* and write(A, w) followed by read(A + capacity) evicts A's line, increments
\* write_backs by exactly one and leaves w at address A of the lower level, the
\* rest of A's block being what the cache line held.
C2_WriteBackDirect ==
    [][ ( /\ IsDirect
          /\ nOps = 1
          /\ last.op = "write"
          /\ last'.op = "read"
          /\ last'.addr = last.addr + cache.size )
        =>
        LET A  == last.addr
            pA == get_address_parts(cache, A)
            pB == get_address_parts(cache, A + cache.size)
        IN  /\ pA.index = pB.index
            /\ pA.tag # pB.tag
            /\ last.err = "none" /\ last'.err = "none"
            /\ ~last'.hit
            /\ cache'.lines[pA.index].tag = pB.tag
            /\ cache.write_backs = 0
            /\ cache'.write_backs = 1
            /\ PySlice(mem', A, A + 4) = last.word
            /\ PySlice(mem', BlockOf(A), BlockOf(A) + cache.block_size)
                   = cache.lines[pA.index].data
            /\ \A a \in 0 .. Len(mem) - 1 :
                   BlockOf(a) # BlockOf(A) => mem'[a + 1] = mem[a + 1]
      ]_vars

\* C2 witness: a direct-mapped cache after write(A, w); read(A + capacity), with
\* the one write-back done and w in the lower level at A.
C2_Witness ==
    /\ IsDirect
    /\ nOps = 2
    /\ last.op = "read"
    /\ last.addr >= cache.size
    /\ cache.write_backs = 1
    /\ PySlice(mem, last.addr - cache.size, last.addr - cache.size + 4) = WordOfCall(1)

\* C3: in a fully-associative cache with N lines, misses fill the invalid lines
\* first without evicting anything (so N distinct blocks from the empty state fill
\* all N lines), and a miss with all lines valid evicts the line whose most recent
\* access (hit or fill) is the oldest; afterwards the victim's old tag is absent
\* from the cache and the new tag is present.
C3_LruReplacement ==
    [][ ( /\ IsFullyAssoc
          /\ nOps' = nOps + 1
          /\ last'.err = "none"
          /\ ~last'.hit )
        =>
        LET v      == last'.line
            newtag == get_address_parts(cache, last'.addr).tag
        IN  /\ Cardinality(ValidLines) = Min(cache.misses, cache.num_lines)
            /\ v \in Lines
            /\ cache'.lines[v].valid /\ cache'.lines[v].tag = newtag
            /\ \A j \in Lines \ {v} :
                   /\ cache'.lines[j].valid = cache.lines[j].valid
                   /\ cache'.lines[j].tag = cache.lines[j].tag
                   /\ cache'.lines[j].data = cache.lines[j].data
            /\ ValidLines # Lines =>
                   /\ ~cache.lines[v].valid
                   /\ cache'.write_backs = cache.write_backs
                   /\ mem' = mem
            /\ ValidLines = Lines =>
                   /\ \A j \in Lines : lastUse[v] <= lastUse[j]
                   /\ \A j \in Lines : cache'.lines[j].tag # cache.lines[v].tag
      ]_vars

\* C3 witness: a full fully-associative cache has just evicted on a miss.
C3_Witness ==
    /\ IsFullyAssoc
    /\ ~last.hit /\ last.op # "none"
    /\ ValidLines = Lines
    /\ cache.misses > cache.num_lines
    /\ cache.hits > 0

\* C4 (as claimed): read(A) immediately followed by read(A) yields identical
\* bytes, and over the two calls hits is incremented exactly once and misses at
\* most once.  `last.hit` tells whether the first call hit, so the hits before
\* the first call are cache.hits less one when it did.
C4_ReadTwiceHitsOnce ==
    [][ ( /\ last.op = "read"
          /\ last'.op = "read"
          /\ last'.addr = last.addr )
        =>
        LET hits0   == cache.hits - (IF last.hit THEN 1 ELSE 0)
            misses0 == cache.misses - (IF last.hit THEN 0 ELSE 1)
        IN  /\ last'.ret = last.ret
            /\ cache'.hits = hits0 + 1
            /\ cache'.misses <= misses0 + 1
      ]_vars

\* C4 (amended): read(A) immediately followed by read(A) yields identical bytes;
\* the second call always hits (it increments hits by one and misses not at
\* all), so over the two calls misses is incremented at most once and hits once
\* when the first call missed, twice when it hit.
C4_ReadTwiceSecondHits ==
    [][ ( /\ last.op = "read"
          /\ last'.op = "read"
          /\ last'.addr = last.addr )
        =>
        LET hits0   == cache.hits - (IF last.hit THEN 1 ELSE 0)
            misses0 == cache.misses - (IF last.hit THEN 0 ELSE 1)
        IN  /\ last.err = "none" /\ last'.err = "none"
            /\ Len(last'.ret) = 4
            /\ last'.ret = last.ret
            /\ last'.hit
            /\ cache'.hits = cache.hits + 1
            /\ cache'.misses = cache.misses
            /\ cache'.misses <= misses0 + 1
            /\ cache'.hits = hits0 + (IF last.hit THEN 2 ELSE 1)
      ]_vars

\* C4 witness: after exactly two calls, a read that hit with one miss before it
\* and no dirty line: the first call was a read that fetched the block, the second
\* a read of the same word (the fully-associative geometry has one word a block).
C4_Witness ==
    /\ IsFullyAssoc
    /\ cache.block_size = 4
    /\ nOps = 2
    /\ last.op = "read" /\ last.hit
    /\ cache.hits = 1 /\ cache.misses = 1
    /\ \A i \in Lines : ~cache.lines[i].dirty

-----------------------------------------------------------------------------
(* The memory hierarchy alone (main.py: the hierarchy built, a binary loaded) *)

L1Mappings == {"direct", "fully-assoc"}

\* the geometry of a hierarchy with the given L1 mappings: sizes in bytes
HierConfig(l1i_mapping, l1d_mapping) ==
    [l1i |-> [size |-> 16, block_size |-> 4, mapping |-> l1i_mapping],
     l1d |-> [size |-> 16, block_size |-> 4, mapping |-> l1d_mapping],
     l2  |-> [size |-> 32, block_size |-> 8, mapping |-> "direct"],
     main_memory_size |-> 32]

\* MemoryHierarchy(...) then load_binary of a 16-byte program
LoadedHierarchy(cfg) ==
    load_binary(MemoryHierarchy_init(cfg.l1i, cfg.l1d, cfg.l2, cfg.main_memory_size),
                InitMemory(16))

HierInit ==
    /\ \E mi \in L1Mappings, md \in L1Mappings :
           hier = LoadedHierarchy(HierConfig(mi, md))
    /\ hOps = 0
    /\ hlast = NoHierCall
    /\ CacheIdle
    /\ CpuIdle
    /\ MainIdle

\* word-aligned addresses inside main memory
HierAddrs == {a \in 0 .. Len(hier.main_mem) - 4 : a % 4 = 0}

\* the values write_data is given
HierValues == {PyInt(10), [hi |-> 57005, lo |-> 48879]}

\* the state after a call on the hierarchy with outcome r
HierCalled(op, A, v, r) ==
    /\ hOps < MaxHierOps
    /\ hier' = r.h
    /\ hlast' = [op |-> op, addr |-> A, value |-> v, ret |-> r.ret, err |-> r.err]
    /\ hOps' = hOps + 1
    /\ UNCHANGED <<cacheVars, cpuVars, mainVars>>

HierReadInstruction ==
    \E A \in HierAddrs :
        HierCalled("read_instruction", A, PyInt(0), read_instruction(hier, A))

HierReadData ==
    \E A \in HierAddrs : HierCalled("read_data", A, PyInt(0), read_data(hier, A))

HierWriteData ==
    \E A \in HierAddrs, v \in HierValues :
        HierCalled("write_data", A, v, write_data(hier, A, v))

HierNext == HierReadInstruction \/ HierReadData \/ HierWriteData

SpecHier == HierInit /\ [][HierNext]_vars

-----------------------------------------------------------------------------
(* Claims about the memory hierarchy *)

\* the lines of a cache of the hierarchy that are dirty
DirtyLines(c) == {i \in 0 .. c.num_lines - 1 : c.lines[i].dirty}

\* no cache of the hierarchy holds a word newer than main memory
NothingDirty ==
    /\ DirtyLines(hier.l1i) = {}
    /\ DirtyLines(hier.l1d) = {}
    /\ DirtyLines(hier.l2) = {}

\* C5: through the hierarchy, read_instruction(A) and read_data(A) complete
\* without error and return the 32-bit little-endian word main memory holds at
\* A, when nothing written through the hierarchy is pending in a cache.
C5_ReadCascades ==
    (hlast.op \in {"read_instruction", "read_data"} /\ NothingDirty)
        => /\ hlast.err = "none"
           /\ hlast.ret = FromBytes(MainMemory_read(hier.main_mem, hlast.addr, 4))

-----------------------------------------------------------------------------
(* The CPU executor (TestCPUExecutor; main.py for the hierarchy-backed CPU) *)

\* register values a test assigns before it executes an instruction
RegValues ==
    {PyInt(0), PyInt(1), PyInt(10), [hi |-> 32768, lo |-> 0],
     [hi |-> 65535, lo |-> 65535]}

\* the hierarchy of a hierarchy-backed CPU
CpuHierarchy == LoadedHierarchy(HierConfig("direct", "fully-assoc"))

\* the variables hold the CPU object s with r1 = a, r2 = b and the Thumb state
\* assigned
Constructed(s, a, b, thumb) ==
    /\ regs = [s.regs EXCEPT ![1] = a, ![2] = b]
    /\ flags = s.flags
    /\ cpu_is_thumb = thumb
    /\ memory = s.memory
    /\ mem_hier = s.mem_hier
    /\ nSteps = 0
    /\ inst = NoInst
    /\ outcome = "none"
    /\ machine_code = NoWord

CPUInit ==
    /\ \E a \in RegValues, b \in RegValues, h \in {NoHier, CpuHierarchy},
          thumb \in BOOLEAN :
           Constructed(CPU_init(FlatMemorySize, h), a, b, thumb)
    /\ CacheIdle
    /\ HierIdle
    /\ MainIdle

\* data-processing instructions: rd = r2, rn = r1 with an immediate or r2 as
\* operand 2, and the form with one register in all three places
DataProcInsts ==
    {DecodedInstruction("DP_IMM", op, 1, 2, None, PyInt(5)) : op \in DataProcOps}
    \cup {DecodedInstruction("DP_REG", op, 1, 2, 2, NoImm) : op \in DataProcOps}
    \cup {DecodedInstruction("DP_REG", op, 1, 1, 1, NoImm) : op \in DataProcOps}

\* STR r2, [r1, #k] and LDR r3, [r1, #k]
LoadStoreInsts ==
    {DecodedInstruction("LOAD_STORE", "STR", 1, 2, None, PyInt(k)) : k \in {0, 4}}
    \cup {DecodedInstruction("LOAD_STORE", "LDR", 1, 3, None, PyInt(k)) : k \in {0, 4}}

\* branch immediates: 0, 2, -1, -2 as 24-bit fields and -3 as the decoder
\* sign-extends it to 32 bits
BranchImms ==
    {PyInt(0), PyInt(2), PyInt(16777215), PyInt(16777214),
     [hi |-> 65535, lo |-> 65533]}

BranchInsts ==
    {DecodedInstruction("BRANCH", op, None, None, None, k) :
        op \in {"B", "BL"}, k \in BranchImms}

\* an instruction the decoder does not recognise
UnknownInsts == {NoInst}

\* the CPU object the variables hold
CpuState ==
    [regs |-> regs, flags |-> flags, cpu_is_thumb |-> cpu_is_thumb,
     memory |-> memory, mem_hier |-> mem_hier, err |-> "none"]

\* the hierarchy is explored for effective addresses below 2^31
Addressable(i) ==
    (mem_hier # NoHier /\ i.op_code \in {"LDR", "STR"})
        => /\ effective_address(CpuState, i).hi >= 0
           /\ effective_address(CpuState, i).hi < 32768

\* the state after execute(i) left the CPU object t
Executed(i, t) ==
    /\ regs' = t.regs
    /\ flags' = t.flags
    /\ cpu_is_thumb' = t.cpu_is_thumb
    /\ memory' = t.memory
    /\ mem_hier' = t.mem_hier
    /\ inst' = i
    /\ outcome' = IF i.op_code \notin Handlers THEN "no handler"
                  ELSE IF t.err = "none" THEN "ok" ELSE t.err
    /\ nSteps' = nSteps + 1
    /\ UNCHANGED <<cacheVars, hierVars, mainVars>>

\* cpu.execute(i)
Execute(i) ==
    /\ nSteps < MaxSteps
    /\ Addressable(i)
    /\ Executed(i, execute(CpuState, i))
    /\ UNCHANGED machine_code

ExecDataProc == \E i \in DataProcInsts : Execute(i)

ExecLoadStore == \E i \in LoadStoreInsts : Execute(i)

ExecBranch == \E i \in BranchInsts : Execute(i)

ExecUnknown == \E i \in UnknownInsts : Execute(i)

CPUNext == ExecDataProc \/ ExecLoadStore \/ ExecBranch \/ ExecUnknown

SpecCPU == CPUInit /\ [][CPUNext]_vars

-----------------------------------------------------------------------------
(* Claims about the CPU executor *)

\* a value in 0 .. 2^32 - 1
Is32(v) == v.hi >= 0 /\ v.hi <= 65535

\* C6: STR rd,[rn,#imm] then LDR rd2,[rn,#imm] with the same effective address
\* both complete and leave rd2 equal to the 32-bit value that was in rd, in
\* the flat-memory configuration and through the memory hierarchy.
C6_StoreLoadRoundTrip ==
    [][(/\ inst.op_code = "STR"
        /\ inst'.op_code = "LDR"
        /\ effective_address(CpuState, inst) = effective_address(CpuState, inst'))
          => /\ outcome = "ok"
             /\ outcome' = "ok"
             /\ regs'[inst'.rd] = Mask32(regs[inst.rd])]_vars

\* the 24-bit immediate read as a signed number
SignedImm24(imm) ==
    IF imm.hi % 256 >= 128
    THEN [hi |-> (imm.hi % 256) - 256, lo |-> imm.lo]
    ELSE [hi |-> imm.hi % 256, lo |-> imm.lo]

\* (pc + 8 + (sign_extend(imm24) << 2)) mod 2^32
TargetOf(pc, imm) ==
    Mask32(PyAdd(PyAdd(pc, PyInt(8)), PyShl2(SignedImm24(imm))))

\* C7: execute(B) leaves the program counter equal to
\* (pc + 8 + (sign_extend(imm24) << 2)) mod 2^32, also when that is the current
\* pc (branch-to-self).
C7_BranchTarget ==
    [][inst'.op_code = "B"
          => /\ outcome' = "ok"
             /\ regs'[15] = TargetOf(regs[15], inst'.imm)]_vars

\* C8: execute(BL) sets r14 to the old pc + 4 and the program counter to the
\* old pc + 8 + (sign_extend(imm24) << 2), and changes no other register and
\* no flag.
C8_BranchLink ==
    [][inst'.op_code = "BL"
          => /\ outcome' = "ok"
             /\ regs'[14] = PyAdd(regs[15], PyInt(4))
             /\ regs'[15] = TargetOf(regs[15], inst'.imm)
             /\ \A r \in 0 .. 13 : regs'[r] = regs[r]
             /\ flags' = flags]_vars

\* the instructions that set flags without writing rd
CompareOps == {"TST", "TEQ", "CMP", "CMN"}

\* operand 2 of the instruction just executed, before the step
StepOperand2 == IF inst'.imm # NoImm THEN inst'.imm ELSE regs[inst'.rm]

\* the result of the compare instruction just executed
CompareResult ==
    CASE inst'.op_code = "TST" -> PyAnd(regs[inst'.rn], StepOperand2)
      [] inst'.op_code = "TEQ" -> PyXor(regs[inst'.rn], StepOperand2)
      [] inst'.op_code = "CMP" -> PySub(regs[inst'.rn], StepOperand2)
      [] inst'.op_code = "CMN" -> PyAdd(regs[inst'.rn], StepOperand2)

\* the 32-bit wrapped result of the data-processing instruction just executed:
\* the value stored in rd, for the instructions that write rd
WrappedResult ==
    IF inst'.op_code \in CompareOps
    THEN Mask32(CompareResult)
    ELSE Mask32(regs'[inst'.rd])

\* a data-processing instruction was just executed on 32-bit operands
DataProcStep ==
    /\ inst'.op_code \in DataProcOps
    /\ outcome' = "ok"
    /\ nSteps' = nSteps + 1
    /\ \A r \in 0 .. 13 : Is32(regs[r])

\* C9: after a flag-setting data-processing instruction on 32-bit operands the
\* Z flag is 1 exactly when the 32-bit wrapped result is zero.
C9_ZFlagWrapped ==
    [][DataProcStep => (flags'.Z = 1 <=> WrappedResult = PyInt(0))]_vars

\* C10: after a flag-setting data-processing instruction on 32-bit operands the
\* N flag equals bit 31 of the 32-bit wrapped result, also when the unmasked
\* result is negative or exceeds 2^32 - 1; SUB rX,rX,rX gives rX = 0, Z = 1,
\* N = 0.
C10_NFlagBit31 ==
    [][DataProcStep
          => /\ flags'.N = Bit31(WrappedResult)
             /\ (inst'.op_code = "SUB" /\ inst'.rn = inst'.rd /\ inst'.rm = inst'.rd)
                   => /\ regs'[inst'.rd] = PyInt(0)
                      /\ flags'.Z = 1
                      /\ flags'.N = 0]_vars

\* C10 witness: SUB r2,r1,#5 executed with r1 = 0: the unmasked result is -5,
\* r2 holds 0xFFFFFFFB and N is 1.
C10_Witness ==
    /\ inst = DecodedInstruction("DP_IMM", "SUB", 1, 2, None, PyInt(5))
    /\ outcome = "ok"
    /\ regs[1] = PyInt(0)
    /\ regs[2] = [hi |-> 65535, lo |-> 65531]
    /\ flags.N = 1

\* the program counter the handler of the instruction just executed left
HandlerPc == handler(CpuState, inst').regs[15]

\* C11: after execute of an instruction with a handler that does not write the
\* program counter (non-branch, rd # 15) the program counter is
\* (old pc + 4) mod 2^32 in ARM mode and (old pc + 2) mod 2^32 in Thumb mode;
\* when the handler changed the pc, no step is added.
C11_PcAdvance ==
    [][(inst'.op_code \in Handlers /\ outcome' = "ok" /\ nSteps' = nSteps + 1)
          => /\ (inst'.op_code \notin {"B", "BL"} /\ inst'.rd # 15)
                   => regs'[15] = Mask32(PyAdd(regs[15],
                                         PyInt(IF cpu_is_thumb THEN 2 ELSE 4)))
             /\ (HandlerPc # regs[15]) => regs'[15] = HandlerPc]_vars

\* C11 witness: in Thumb mode a data-processing instruction executed at
\* pc = 0xFFFFFFFC (reached by a branch) has wrapped the pc to 0xFFFFFFFE.
C11_Witness ==
    /\ cpu_is_thumb
    /\ nSteps = 2
    /\ inst.op_code \in DataProcOps
    /\ outcome = "ok"
    /\ regs[15] = [hi |-> 65535, lo |-> 65534]

\* C12: executing an instruction whose op_code has no handler is non-fatal and
\* leaves all 16 registers (the program counter included), all four flags and
\* all memory unchanged.
C12_UnknownSkipped ==
    [][(inst'.op_code \notin Handlers /\ nSteps' = nSteps + 1)
          => /\ outcome' = "no handler"
             /\ regs' = regs
             /\ flags' = flags
             /\ memory' = memory
             /\ mem_hier' = mem_hier]_vars

\* C12 witness: an UNK instruction was executed second, after a branch moved
\* the pc to 16, on a CPU with r1 = 10.
C12_Witness ==
    /\ inst = NoInst
    /\ outcome = "no handler"
    /\ nSteps = 2
    /\ regs[1] = PyInt(10)
    /\ regs[15] = PyInt(16)

\* C13: in every reachable CPU state each of the 16 registers (r14 after BL and
\* r15 included) holds a value in 0 .. 2^32 - 1.
C13_RegistersIn32Bits == \A r \in 0 .. 15 : Is32(regs[r])

-----------------------------------------------------------------------------
(* main.py: the driving loop *)

\* A run is [cpu, program_size, phase, err, stats, cost]: cpu is the CPU object,
\* whose mem_hier is the hierarchy mh of main; phase is "loop" while the loop
\* runs, "exited" after the statistics are reported and "raised" once an
\* exception has left main.

\* no statistics reported
NoStats == [none |-> TRUE]

\* main up to the loop: the hierarchy built, the binary loaded, the CPU made
main_start(cfg, data) ==
    [cpu |-> set_pc(CPU_init(1024,
                             load_binary(MemoryHierarchy_init(cfg.l1i, cfg.l1d, cfg.l2,
                                                              cfg.main_memory_size),
                                         data)),
                    PyInt(0)),
     program_size |-> Len(data),
     phase |-> "loop", err |-> "none", stats |-> NoStats, cost |-> 0]

\* cpu.pc < program_size
pc_below(pc, program_size) ==
    pc.hi < 0 \/ (pc.hi = 0 /\ pc.lo < program_size)

\* decode_thumb(instr_word) if cpu.cpu_is_thumb else decode_arm(instr_word)
decode(thumb, instr_word) ==
    IF thumb THEN decode_thumb(instr_word) ELSE decode_arm(instr_word)

\* the run after cpu.execute(inst) left the CPU object t
run_executed(run, t) ==
    IF t.err # "none"
    THEN [run EXCEPT !.cpu = [t EXCEPT !.err = "none"], !.phase = "raised",
                     !.err = t.err]
    ELSE [run EXCEPT !.cpu = t]

\* the run after mh.read_instruction(cpu.pc) with outcome r: decode and execute
run_fetched(run, r) ==
    IF r.err # "none"
    THEN [run EXCEPT !.cpu.mem_hier = r.h, !.phase = "raised", !.err = r.err]
    ELSE run_executed(run, execute([run.cpu EXCEPT !.mem_hier = r.h],
                                   decode(run.cpu.cpu_is_thumb, r.ret)))

\* one iteration of the loop body
iterate(run) ==
    run_fetched(run, read_instruction(run.cpu.mem_hier, ToNat(run.cpu.regs[15])))

\* cost = 0.5 * (l1i_misses + l1d_misses) + l2_misses + write_backs, kept in
\* halves (twice the cost) to stay in the integers
cost_halves(st) ==
    (st.l1i_misses + st.l1d_misses) + 2 * st.l2_misses + 2 * st.write_backs

\* after the loop: stats = mh.stats and the cost
report(run) ==
    [run EXCEPT !.phase = "exited",
                !.stats = stats(run.cpu.mem_hier),
                !.cost = cost_halves(stats(run.cpu.mem_hier))]

\* the two runs that are compared
Runs == {1, 2}

\* instruction words of the programs: ADD r2,r1,#5; SUB r0,r0,r0 (which
\* decode_arm leaves as UNK); STR r2,[r1]; LDR r3,[r1]; B to self; BL +0; and
\* a word of no instruction class
ProgramWords ==
    {[hi |-> 57985, lo |-> 8197], [hi |-> 57408, lo |-> 0],
     [hi |-> 58753, lo |-> 8192], [hi |-> 58769, lo |-> 12288],
     [hi |-> 60159, lo |-> 65534], [hi |-> 60160, lo |-> 0],
     [hi |-> 65535, lo |-> 65535]}

\* the bytes of a binary file holding the words ws
RECURSIVE ProgramBytes(_)
ProgramBytes(ws) ==
    IF ws = <<>> THEN <<>> ELSE ToBytes(Head(ws)) \o ProgramBytes(Tail(ws))

\* the programs given to main
Programs ==
    UNION {[1 .. n -> ProgramWords] : n \in 0 .. MaxProgramWords}

\* both runs start from the same binary and the same cache configuration
MainInit ==
    /\ \E mi \in L1Mappings, md \in L1Mappings, ws \in Programs :
           runs = [r \in Runs |-> main_start(HierConfig(mi, md), ProgramBytes(ws))]
    /\ CacheIdle
    /\ HierIdle
    /\ CpuIdle

\* while cpu.pc < program_size: fetch, decode, execute
MainIterate ==
    \E r \in Runs :
        /\ runs[r].phase = "loop"
        /\ pc_below(runs[r].cpu.regs[15], runs[r].program_size)
        /\ runs' = [runs EXCEPT ![r] = iterate(runs[r])]
        /\ UNCHANGED <<cacheVars, hierVars, cpuVars>>

\* the loop condition fails: the statistics and the cost are reported
MainReport ==
    \E r \in Runs :
        /\ runs[r].phase = "loop"
        /\ ~pc_below(runs[r].cpu.regs[15], runs[r].program_size)
        /\ runs' = [runs EXCEPT ![r] = report(runs[r])]
        /\ UNCHANGED <<cacheVars, hierVars, cpuVars>>

MainNext == MainIterate \/ MainReport

\* main is single-threaded: a run that can take a step takes it
SpecMain == MainInit /\ [][MainNext]_vars /\ WF_vars(MainNext)

-----------------------------------------------------------------------------
(* Claims about the driving loop *)

\* C14: two runs of the driving loop from the same main-memory image and the
\* same cache configuration produce identical statistics snapshots
\* {l1i_misses, l1d_misses, l2_misses, write_backs}, write_backs being the sum
\* over L1I, L1D and L2, and an identical cost.
C14_StatsReproducible ==
    (\A r \in Runs : runs[r].phase # "loop")
        => \A r \in Runs :
              /\ runs[r].phase = "exited"
              /\ runs[r].stats = runs[1].stats
              /\ runs[r].stats.write_backs =
                    runs[r].cpu.mem_hier.l1i.write_backs
                    + runs[r].cpu.mem_hier.l1d.write_backs
                    + runs[r].cpu.mem_hier.l2.write_backs
              /\ runs[r].cost = runs[1].cost

-----------------------------------------------------------------------------
(* Caches of any geometry (Cache.__init__ called directly) *)

\* geometries a caller can pass to the constructor: a capacity that is not a
\* multiple of the block size, a line count that is not a power of two, a
\* capacity below one block under either mapping, and a regular geometry
GeomConfigs ==
    { [size |-> 12, block_size |-> 8, mapping_type |-> "direct", mem_size |-> 16],
      [size |-> 12, block_size |-> 4, mapping_type |-> "direct", mem_size |-> 16],
      [size |-> 2, block_size |-> 4, mapping_type |-> "direct", mem_size |-> 8],
      [size |-> 2, block_size |-> 4, mapping_type |-> "fully-assoc", mem_size |-> 8],
      [size |-> 8, block_size |-> 4, mapping_type |-> "fully-assoc", mem_size |-> 12] }

GeomInit ==
    /\ \E cfg \in GeomConfigs :
        /\ cache = Cache_init(cfg.size, cfg.block_size, cfg.mapping_type)
        /\ mem = InitMemory(cfg.mem_size)
        /\ nOps = 0
        /\ last = NoCall
        /\ shadow = [a \in {x \in 0 .. cfg.mem_size - 4 : x % 4 = 0} |->
                        SubSeq(InitMemory(cfg.mem_size), a + 1, a + 4)]
        /\ lastUse = [i \in 0 .. (cfg.size \div cfg.block_size) - 1 |-> 0]
        /\ nWrites = 0
    /\ HierIdle
    /\ CpuIdle
    /\ MainIdle

SpecGeom == GeomInit /\ [][CacheNext]_vars

-----------------------------------------------------------------------------
(* Claims about cache geometry *)

\* n is a power of two
PowerOfTwo(n) == n >= 1 /\ 2 ^ Log2(n) = n

\* the capacity is not a multiple of the block size, or the line count of a
\* direct-mapped cache is not a power of two
Misconfigured ==
    \/ cache.size % cache.block_size # 0
    \/ cache.mapping_type = "direct" /\ ~PowerOfTwo(cache.num_lines)

\* C15: constructing a Cache with a misconfigured geometry fails at
\* construction with a ConfigurationError: no such cache exists to be accessed.
C15_MisconfiguredRejected == ~Misconfigured

\* C16: a zero-line cache (capacity smaller than one block) gets
\* index_bits = 0, and neither its construction nor a read or write on it
\* raises an error, for either mapping policy.
C16_ZeroLineNoFault ==
    cache.num_lines = 0 => (cache.index_bits = 0 /\ last.err = "none")

-----------------------------------------------------------------------------
(* Claims about write-back and victim selection *)

\* block-aligned addresses of the lower level
BlockAddrs == {a \in 0 .. Len(mem) - 1 : a % cache.block_size = 0}

\* the block-aligned address the valid line i was filled from: the one block
\* whose address parts are the line's tag and, under direct mapping, its index
FetchedFrom(i) ==
    CHOOSE B \in BlockAddrs :
        /\ get_address_parts(cache, B).tag = cache.lines[i].tag
        /\ IsDirect => get_address_parts(cache, B).index = i

\* C17: on every miss whose victim line is valid and dirty, for both mapping
\* policies and every victim slot, the victim's whole block is written to the
\* lower level at exactly the block-aligned address it was fetched from (and
\* nowhere else), and write_backs is incremented by one.
C17_WriteBackAddress ==
    [][ ( /\ nOps' = nOps + 1
          /\ last'.err = "none"
          /\ ~last'.hit
          /\ cache.lines[last'.line].valid
          /\ cache.lines[last'.line].dirty )
        =>
        LET v == last'.line
            B == FetchedFrom(v)
        IN  /\ cache'.write_backs = cache.write_backs + 1
            /\ Len(mem') = Len(mem)
            /\ PySlice(mem', B, B + cache.block_size) = cache.lines[v].data
            /\ \A a \in 0 .. Len(mem) - 1 :
                   BlockOf(a) # B => mem'[a + 1] = mem[a + 1]
      ]_vars

-----------------------------------------------------------------------------
(* Claims about the progress of the driving loop *)

\* a < b for Python integers
PyLess(a, b) == a.hi < b.hi \/ (a.hi = b.hi /\ a.lo < b.lo)

\* C18: in the driving loop (while pc < program_size: fetch at pc, decode,
\* execute) every finite program without branch instructions eventually
\* terminates; in particular, after execute skipped an instruction of unknown
\* op-code, the pc, which is the address of the loop's next fetch, is the
\* address of a later instruction.
C18_UnknownAdvances ==
    [][(inst'.op_code \notin Handlers /\ nSteps' = nSteps + 1)
          => PyLess(regs[15], regs'[15])]_vars

-----------------------------------------------------------------------------
(* Claims about the write policy *)

\* C19: the cache is write-back, not write-through. A write(A, w) that hits
\* leaves the lower level untouched and the line's block in place (no write
\* and no fetch); the lower level is written only inside the handling of a
\* miss whose victim line is valid and dirty; and immediately after any
\* write(A, w) the lower level's bytes at A are not w.
C19_WriteBackPolicy ==
    [][ (nOps' = nOps + 1 /\ last'.err = "none")
        =>
        LET v == last'.line
            A == last'.addr
            o == last'.addr % cache.block_size
        IN  /\ (last'.op = "write" /\ last'.hit) =>
                   /\ mem' = mem
                   /\ cache'.write_backs = cache.write_backs
                   /\ cache'.misses = cache.misses
                   /\ cache'.lines[v].tag = cache.lines[v].tag
                   /\ \A k \in 1 .. cache.block_size :
                          (k - 1 < o \/ k - 1 >= o + 4)
                          => cache'.lines[v].data[k] = cache.lines[v].data[k]
            /\ mem' # mem =>
                   /\ ~last'.hit
                   /\ cache.lines[v].valid
                   /\ cache.lines[v].dirty
                   /\ cache'.write_backs = cache.write_backs + 1
            /\ last'.op = "write" =>
                   /\ PySlice(cache'.lines[v].data, o, o + 4) = last'.word
                   /\ cache'.lines[v].dirty
                   /\ PySlice(mem', A, A + 4) # last'.word
      ]_vars

\* C19 witness: a write has just hit in a cache that has written a victim back
\* before, and the lower level does not hold the written word.
C19_Witness ==
    /\ last.op = "write"
    /\ last.hit
    /\ last.err = "none"
    /\ cache.write_backs > 0
    /\ PySlice(mem, last.addr, last.addr + 4) # last.word

-----------------------------------------------------------------------------
(* Claims about fully-associative victim selection *)

\* the valid lines are the lines 0 .. k - 1 for some k
ValidPrefix == \A i \in ValidLines : \A j \in Lines : j < i => j \in ValidLines

\* C20: fully-associative victim selection never evicts a valid line while an
\* invalid one exists. The first invalid line (lowest index) is the victim, so
\* the valid lines always form a prefix of the line array and no write-back
\* happens before every line is valid; when all lines are valid the victim is
\* the line with the highest recency counter, the lowest index winning ties.
C20_VictimSelection ==
    [][ (IsFullyAssoc /\ nOps' = nOps + 1 /\ last'.err = "none")
        =>
        LET v == last'.line
        IN  /\ ValidPrefix
            /\ ValidPrefix'
            /\ ValidLines # Lines => cache'.write_backs = 0
            /\ (~last'.hit /\ ValidLines # Lines) =>
                   /\ ~cache.lines[v].valid
                   /\ \A j \in Lines : j < v => cache.lines[j].valid
                   /\ (ValidLines)' = ValidLines \cup {v}
                   /\ mem' = mem
            /\ (~last'.hit /\ ValidLines = Lines) =>
                   /\ \A j \in Lines :
                          cache.lines[j].lru_counter <= cache.lines[v].lru_counter
                   /\ \A j \in Lines :
                          j < v => cache.lines[j].lru_counter < cache.lines[v].lru_counter
      ]_vars

\* C20 witness: a fully-associative cache whose lines were filled in index
\* order has just evicted the line of highest recency counter, which was dirty.
C20_Witness ==
    /\ IsFullyAssoc
    /\ last.op # "none"
    /\ ~last.hit
    /\ last.err = "none"
    /\ last.line > 0
    /\ ValidLines = Lines
    /\ cache.misses = cache.num_lines + 1
    /\ cache.write_backs = 1

-----------------------------------------------------------------------------
(* Decode and execute: the body of the driving loop on a given word *)

\* the instruction words given to the decoder. The condition is AL (0xE); the
\* first set runs over every value of bits 27-20 with rn = r1, rd = r2 and the
\* low bits 5 (imm = 5 or rm = r5); then branch words with the offsets 0, 2,
\* -2, -1, the largest and the smallest, and BL; then Thumb words over every
\* value of bits 15-9
DecodeWords ==
    {[hi |-> 57345 + 16 * x, lo |-> 8197] : x \in 0 .. 255}
    \cup {[hi |-> 59904, lo |-> 0], [hi |-> 59904, lo |-> 2],
          [hi |-> 60159, lo |-> 65534], [hi |-> 60159, lo |-> 65535],
          [hi |-> 60031, lo |-> 65535], [hi |-> 60032, lo |-> 0],
          [hi |-> 60160, lo |-> 0], [hi |-> 60415, lo |-> 65534]}
    \cup {[hi |-> 0, lo |-> 512 * y + 81] : y \in 0 .. 127}

\* a CPU over flat memory, in ARM or in Thumb state, with r1 = 1 and r2 = 10
DecodeInit ==
    /\ \E thumb \in BOOLEAN, a \in {PyInt(1), PyInt(4)} :
           Constructed(CPU_init(FlatMemorySize, NoHier), a, PyInt(10), thumb)
    /\ CacheIdle
    /\ HierIdle
    /\ MainIdle

\* inst = decode(instr_word); cpu.execute(inst)
DecodeExecute ==
    \E w \in DecodeWords :
        /\ nSteps < MaxDecodes
        /\ Executed(decode(cpu_is_thumb, w),
                    execute(CpuState, decode(cpu_is_thumb, w)))
        /\ machine_code' = w

SpecDecode == DecodeInit /\ [][DecodeExecute]_vars

-----------------------------------------------------------------------------
(* Claims about the decoder *)

\* bit n of the 32-bit word w
Bit(w, n) ==
    IF n >= 16 THEN (w.hi \div (2 ^ (n - 16))) % 2 ELSE (w.lo \div (2 ^ n)) % 2

\* bits 27-25 and bits 24-21 of the decoded word
ClassBits == 4 * Bit(machine_code, 27) + 2 * Bit(machine_code, 26) + Bit(machine_code, 25)

OpcodeBits ==
    8 * Bit(machine_code, 24) + 4 * Bit(machine_code, 23)
    + 2 * Bit(machine_code, 22) + Bit(machine_code, 21)

\* a word has been decoded by decode_arm
ArmDecoded == machine_code # NoWord /\ ~cpu_is_thumb

\* C21: decode_arm is total over 32-bit words and classifies by bits 27-25
\* alone: 001 gives DP_IMM, 000 gives DP_REG, 010 and 011 give LOAD_STORE (LDR
\* when bit 20 is 1, else STR), 101 gives BRANCH (BL when bit 24 is 1, else B),
\* every other pattern gives UNKNOWN with op_code UNK; an opcode field outside
\* the lookup table yields op_code UNK rather than an error.
C21_DecodeArmClasses ==
    ArmDecoded =>
        /\ ClassBits = 1 =>
               /\ inst.op_type = "DP_IMM"
               /\ inst.op_code \in {"ADD", "SUB", "MOV", "AND", "ORR", "CMN",
                                    "TST", "CMP", "UNK"}
               /\ OpcodeBits \notin {4, 2, 13, 0, 12, 11, 9, 10}
                      => inst.op_code = "UNK"
        /\ ClassBits = 0 =>
               /\ inst.op_type = "DP_REG"
               /\ inst.op_code = IF OpcodeBits = 4 THEN "ADD" ELSE "UNK"
        /\ ClassBits \in {2, 3} =>
               /\ inst.op_type = "LOAD_STORE"
               /\ inst.op_code = IF Bit(machine_code, 20) = 1 THEN "LDR" ELSE "STR"
        /\ ClassBits = 5 =>
               /\ inst.op_type = "BRANCH"
               /\ inst.op_code = IF Bit(machine_code, 24) = 1 THEN "BL" ELSE "B"
        /\ ClassBits \in {4, 6, 7} =>
               /\ inst.op_type = "UNKNOWN"
               /\ inst.op_code = "UNK"
        /\ inst = decode_arm(machine_code)

\* C21 witness: a word of class 011 with bit 20 set has been decoded as LDR.
C21_Witness ==
    /\ ArmDecoded
    /\ ClassBits = 3
    /\ Bit(machine_code, 20) = 1
    /\ inst.op_code = "LDR"
    /\ regs[2] = PyInt(0)

\* four times the two's-complement value of bits [23:0] of the word w: bit 23
\* is tested, 2^24 subtracted when it is set, and the value shifted left by 2
WordDisplacement(w) ==
    PyInt(4 * (IF Bit(w, 23) = 1
               THEN (w.hi % 256) * 65536 + w.lo - 16777216
               ELSE (w.hi % 256) * 65536 + w.lo))

\* C22: for every ARM branch word, decode_arm followed by execute moves the pc
\* by 8 plus four times the two's-complement value of the word's 24-bit field
\* (modulo 2^32): the decoder's sign-extension and the executor's re-extraction
\* agree.
C22_BranchWordDisplacement ==
    [][(~cpu_is_thumb /\ machine_code' # NoWord /\ nSteps' = nSteps + 1
            /\ inst'.op_type = "BRANCH")
          => /\ outcome' = "ok"
             /\ regs'[15] = Mask32(PyAdd(PyAdd(regs[15], PyInt(8)),
                                         WordDisplacement(machine_code')))]_vars

\* C29: every DecodedInstruction returned by decode_arm or decode_thumb whose
\* op_code has an executor handler carries every operand field that handler
\* reads (rn, rd, and either imm or rm), so executing it never faults on a
\* missing (None) operand.
C29_DecodedOperandsPresent ==
    (machine_code # NoWord /\ inst.op_code \in Handlers)
        => /\ ~MissingOperand(inst)
           /\ outcome = "ok"

-----------------------------------------------------------------------------
(* Claims about load/store addressing and the compare instructions *)

\* (regs[rn] + imm) mod 2^32 for the instruction about to be executed
WrappedAddress == Mask32(PyAdd(regs[inst'.rn], inst'.imm))

\* C23: the effective address that LDR and STR pass to memory is
\* (regs[rn] + imm) mod 2^32. On the flat memory: when the wrapped address lies
\* within the memory, STR stores the word's four bytes there and leaves the
\* memory's size alone, and LDR loads the four bytes found there.
C23_AddressWraps ==
    [][(inst'.op_code \in {"LDR", "STR"} /\ nSteps' = nSteps + 1
            /\ mem_hier = NoHier
            /\ WrappedAddress.hi = 0
            /\ WrappedAddress.lo + 4 <= Len(memory))
          => /\ outcome' = "ok"
             /\ inst'.op_code = "STR" =>
                    /\ Len(memory') = Len(memory)
                    /\ PySlice(memory', WrappedAddress.lo, WrappedAddress.lo + 4)
                           = ToBytes(Mask32(regs[inst'.rd]))
             /\ inst'.op_code = "LDR" =>
                    regs'[inst'.rd]
                        = FromBytes(PySlice(memory, WrappedAddress.lo,
                                            WrappedAddress.lo + 4))]_vars

\* C24: TST, TEQ, CMP and CMN write no general register: after execute every
\* register other than the program counter is unchanged and only the N and Z
\* flags may differ; and the C and V flags are never modified by any
\* instruction.
C24_CompareFrame ==
    [][nSteps' = nSteps + 1
          => /\ flags'.C = flags.C
             /\ flags'.V = flags.V
             /\ DOMAIN flags' = {"N", "Z", "C", "V"}
             /\ inst'.op_code \in CompareOps =>
                    /\ \A r \in 0 .. 14 : regs'[r] = regs[r]
                    /\ memory' = memory
                    /\ mem_hier' = mem_hier]_vars

\* C24 witness: a compare has just executed with rd = r2, changed the N flag
\* and advanced the pc, and r2 still holds what it was constructed with.
C24_Witness ==
    /\ inst.op_code \in CompareOps
    /\ inst.rd = 2
    /\ outcome = "ok"
    /\ nSteps = 1
    /\ flags.N = 1
    /\ regs[15] = PyInt(4)
    /\ regs[2] = PyInt(10)

-----------------------------------------------------------------------------
(* Invariants of the single cache *)

\* the block-aligned address that the tag of line i, and under direct mapping
\* its slot, denote
DenotedBlock(i) ==
    IF IsDirect
    THEN (cache.lines[i].tag * (2 ^ cache.index_bits) + i) * cache.block_size
    ELSE cache.lines[i].tag * cache.block_size

\* C25: clean-line coherence. In every reachable state of a cache backed by
\* main memory, for either mapping policy, every line that is valid and not
\* dirty holds data identical to the lower level's current contents of the
\* block that the line's tag (and slot) denotes.
C25_CleanLinesCoherent ==
    \A i \in Lines :
        (cache.lines[i].valid /\ ~cache.lines[i].dirty)
            => cache.lines[i].data
                   = PySlice(mem, DenotedBlock(i), DenotedBlock(i) + cache.block_size)

\* C26: counter accounting. Every read or write call on a Cache increments
\* exactly one of hits and misses by one, so hits + misses always equals the
\* number of accesses made; no counter decreases; write_backs never exceeds
\* misses and never exceeds the number of write calls.
C26_CounterAccounting ==
    [][nOps' = nOps + 1
          => /\ \/ cache'.hits = cache.hits + 1 /\ cache'.misses = cache.misses
                \/ cache'.hits = cache.hits /\ cache'.misses = cache.misses + 1
             /\ cache'.hits + cache'.misses = nOps'
             /\ cache'.write_backs >= cache.write_backs
             /\ cache'.write_backs <= cache'.misses
             /\ cache'.write_backs <= nWrites']_vars

\* C27: in a fully-associative cache, in every reachable state, no two valid
\* lines hold the same tag (a block is resident in at most one line), and
\* every dirty line is valid.
C27_ResidentOnce ==
    IsFullyAssoc =>
        /\ \A i \in ValidLines : \A j \in ValidLines :
               cache.lines[i].tag = cache.lines[j].tag => i = j
        /\ \A i \in Lines : cache.lines[i].dirty => cache.lines[i].valid

\* C27 witness: a full fully-associative cache with a dirty line, after a hit
\* and an eviction.
C27_Witness ==
    /\ IsFullyAssoc
    /\ ValidLines = Lines
    /\ \E i \in Lines : cache.lines[i].dirty
    /\ cache.hits > 0
    /\ cache.misses > cache.num_lines
    /\ nOps = MaxOps

\* C28: recency counters of a fully-associative cache. Each resolved access
\* sets the accessed line's counter to 0, increments every other valid line's
\* counter by 1 and leaves the counters of invalid lines unchanged; so after
\* any sequence of accesses the valid lines have pairwise distinct counters,
\* exactly one valid line, the most recently accessed one, has counter 0, and
\* the counters order the valid lines by the time since their last access.
C28_RecencyCounters ==
    [][ (IsFullyAssoc /\ nOps' = nOps + 1 /\ last'.err = "none")
        =>
        LET v == last'.line
        IN  /\ cache'.lines[v].valid
            /\ cache'.lines[v].lru_counter = 0
            /\ \A j \in Lines \ {v} :
                   cache'.lines[j].lru_counter
                       = IF cache.lines[j].valid
                         THEN cache.lines[j].lru_counter + 1
                         ELSE cache.lines[j].lru_counter
            /\ \A i \in (ValidLines)' : \A j \in (ValidLines)' :
                   /\ cache'.lines[i].lru_counter = cache'.lines[j].lru_counter
                          => i = j
                   /\ cache'.lines[i].lru_counter < cache'.lines[j].lru_counter
                          <=> lastUse'[i] > lastUse'[j]
            /\ {i \in (ValidLines)' : cache'.lines[i].lru_counter = 0} = {v}
      ]_vars

\* C28 witness: a hit on a line other than the last one filled, in a full
\* fully-associative cache whose counters are 0, 1 and 2.
C28_Witness ==
    /\ IsFullyAssoc
    /\ ValidLines = Lines
    /\ last.hit
    /\ last.line < cache.num_lines - 1
    /\ cache.lines[last.line].lru_counter = 0
    /\ {cache.lines[i].lru_counter : i \in Lines} = 0 .. cache.num_lines - 1
    /\ cache.misses > cache.num_lines

=============================================================================
